---------------------------- MODULE Spec2Model ----------------------------
(***************************************************************************)
(* A model of serles/backends/acmesh.py: the AcmeSHBackend class, its      *)
(* constructor, sign() and _parse_dns_plugin_config().                     *)
(*                                                                         *)
(* Python text that the code inspects character by character (the          *)
(* dns_plugin_config block, environment names and values) is a sequence of *)
(* one-character strings.  Python text the code only passes around (paths, *)
(* the plugin name, command-line flags) is a TLA+ string.                  *)
(***************************************************************************)
EXTENDS Integers, Sequences, FiniteSets, TLC

(***************************************************************************)
(* Bounds of the model.                                                    *)
(***************************************************************************)
\* longest credential block the translator is applied to in ParseSpec
MaxLen == 6
\* number of sign() calls that may run concurrently
NCalls == 2
\* seconds by which one step of the clock advances a waiting call
TickStep == 450
\* number of sign() calls made in the specification with fairness
NLive == 1

(***************************************************************************)
(* Python values.                                                          *)
(***************************************************************************)
PyNone == [t |-> "None"]
PyStr(s) == [t |-> "str", v |-> s]
PyText(s) == [t |-> "text", v |-> s]
PyInt(n) == [t |-> "int", v |-> n]
PyBool(b) == [t |-> "bool", v |-> b]
PyBytes(b) == [t |-> "bytes", v |-> b]

\* Python truth value of x ("if not x")
Truthy(x) ==
    CASE x.t = "None" -> FALSE
      [] x.t = "str" -> x.v # ""
      [] x.t = "text" -> Len(x.v) > 0
      [] x.t = "int" -> x.v # 0
      [] x.t = "bool" -> x.v
      [] OTHER -> TRUE

\* dict.get(key, default) on a mapping
Get(d, key, default) == IF key \in DOMAIN d THEN d[key] ELSE default

(***************************************************************************)
(* str methods used by _parse_dns_plugin_config.                           *)
(***************************************************************************)
Whitespace == {" ", "\t", "\n", "\r"}
LineBreaks == {"\n"}

RECURSIVE lstrip(_)
lstrip(s) == IF s # <<>> /\ Head(s) \in Whitespace THEN lstrip(Tail(s)) ELSE s

RECURSIVE rstrip(_)
rstrip(s) ==
    IF s # <<>> /\ s[Len(s)] \in Whitespace
    THEN rstrip(SubSeq(s, 1, Len(s) - 1))
    ELSE s

strip(s) == rstrip(lstrip(s))

\* index of the first element of s that is in set cs, 0 when there is none
RECURSIVE find(_, _, _)
find(s, cs, i) ==
    IF i > Len(s) THEN 0
    ELSE IF s[i] \in cs THEN i
    ELSE find(s, cs, i + 1)

\* str.splitlines(): no line for the empty string, none after a final break
RECURSIVE splitlines(_)
splitlines(s) ==
    IF s = <<>> THEN <<>>
    ELSE LET i == find(s, LineBreaks, 1)
         IN  IF i = 0 THEN <<s>>
             ELSE <<SubSeq(s, 1, i - 1)>> \o splitlines(SubSeq(s, i + 1, Len(s)))

\* str.partition(sep) for a one-character sep: <<before, sep, after>>
partition(s, sep) ==
    LET i == find(s, {sep}, 1)
    IN  IF i = 0 THEN <<s, <<>>, <<>>>>
        ELSE <<SubSeq(s, 1, i - 1), <<sep>>, SubSeq(s, i + 1, Len(s))>>

\* '=' in line
Contains(s, c) == find(s, {c}, 1) # 0

\* d[key] = value on a dict
DictSet(d, key, value) ==
    [k \in DOMAIN d \cup {key} |-> IF k = key THEN value ELSE d[k]]

EmptyDict == [k \in {} |-> <<>>]

(***************************************************************************)
(* AcmeSHBackend._parse_dns_plugin_config                                  *)
(***************************************************************************)
\* Lines 107-108: for a blank line or one without '=' the code builds a
\* RuntimeError object and drops it; there is no raise statement, so no
\* line makes the loop raise.
MalformedRaises(line) ==
    IF line = <<>> \/ ~Contains(line, "=") THEN FALSE ELSE FALSE

\* Lines 110-114: one pass of the loop body on an (already stripped) line
ParseLine(config_dict, line) ==
    LET p == partition(line, "=")
    IN  DictSet(config_dict, strip(p[1]), strip(p[3]))

\* Lines 103-114: the loop; yields [raised, line, config_dict]
RECURSIVE ParseLines(_, _)
ParseLines(lines, config_dict) ==
    IF lines = <<>> THEN [raised |-> FALSE, line |-> <<>>, config_dict |-> config_dict]
    ELSE LET line == strip(Head(lines))
         IN  IF MalformedRaises(line)
             THEN [raised |-> TRUE, line |-> line, config_dict |-> config_dict]
             ELSE ParseLines(Tail(lines), ParseLine(config_dict, line))

_parse_dns_plugin_config(config_str) ==
    ParseLines(splitlines(strip(config_str)), EmptyDict)


(***************************************************************************)
(* AcmeSHBackend.__init__                                                  *)
(***************************************************************************)
DefaultBinaryPath == "/root/.acme.sh/acme.sh"
DefaultHomePath == "/root/.acme.sh"
DefaultDnsSleepTime == 300

Raised(msg) == [raised |-> TRUE, exc |-> msg, self |-> PyNone]
Constructed(obj) == [raised |-> FALSE, exc |-> <<>>, self |-> obj]

\* (mutant) the home path is checked before the binary
InitHomeFirst(config, executables, existing) ==
    IF "acmesh" \notin DOMAIN config
    THEN Raised(<<"acmesh section missing from config.ini">>)
    ELSE
    LET section == config["acmesh"]
        acmesh_binary_path == Get(section, "acmesh_binary_path", PyStr(DefaultBinaryPath))
        acmesh_home_path == Get(section, "acmesh_home_path", PyStr(DefaultHomePath))
        dns_plugin == Get(section, "dns_plugin", PyNone)
        dns_plugin_config == Get(section, "dns_plugin_config", PyNone)
        dns_sleep_time == Get(section, "dns_sleep_time", PyInt(DefaultDnsSleepTime))
        debug_mode == Get(section, "debug_mode", PyBool(FALSE))
    IN  IF acmesh_home_path.v \notin existing
        THEN Raised(<<"ACME.sh home path does not exist.", acmesh_home_path.v>>)
        ELSE IF acmesh_binary_path.v \notin executables
        THEN Raised(<<"ACME.sh not executable", acmesh_binary_path.v>>)
        ELSE IF ~Truthy(dns_plugin)
        THEN Raised(<<"Please specify a dns_plugin in acmesh section of config.ini">>)
        ELSE IF ~Truthy(dns_plugin_config)
        THEN Raised(<<"Please specify a dns_plugin_config in acmesh section of config.ini">>)
        ELSE Constructed([acmesh_binary_path |-> acmesh_binary_path,
                          acmesh_home_path |-> acmesh_home_path,
                          dns_plugin |-> dns_plugin,
                          dns_plugin_config |-> dns_plugin_config,
                          dns_sleep_time |-> dns_sleep_time,
                          debug_mode |-> debug_mode])

\* Lines 35-57.  config maps section names to sections, a section maps option
\* names to values; executables is the set of paths os.access(p, X_OK) accepts
\* and existing the set of paths os.path.exists(p) accepts.
__init__(config, executables, existing) ==
    IF "acmesh" \notin DOMAIN config
    THEN Raised(<<"acmesh section missing from config.ini">>)
    ELSE
    LET section == config["acmesh"]
        acmesh_binary_path == Get(section, "acmesh_binary_path", PyStr(DefaultBinaryPath))
        acmesh_home_path == Get(section, "acmesh_home_path", PyStr(DefaultHomePath))
        dns_plugin == Get(section, "dns_plugin", PyNone)
        dns_plugin_config == Get(section, "dns_plugin_config", PyNone)
        dns_sleep_time == Get(section, "dns_sleep_time", PyInt(DefaultDnsSleepTime))
        debug_mode == Get(section, "debug_mode", PyBool(FALSE))
    IN  IF acmesh_binary_path.v \notin executables
        THEN Raised(<<"ACME.sh not executable", acmesh_binary_path.v>>)
        ELSE IF acmesh_home_path.v \notin existing
        THEN Raised(<<"ACME.sh home path does not exist.", acmesh_home_path.v>>)
        ELSE IF ~Truthy(dns_plugin)
        THEN Raised(<<"Please specify a dns_plugin in acmesh section of config.ini">>)
        ELSE IF ~Truthy(dns_plugin_config)
        THEN Raised(<<"Please specify a dns_plugin_config in acmesh section of config.ini">>)
        ELSE Constructed([acmesh_binary_path |-> acmesh_binary_path,
                          acmesh_home_path |-> acmesh_home_path,
                          dns_plugin |-> dns_plugin,
                          dns_plugin_config |-> dns_plugin_config,
                          dns_sleep_time |-> dns_sleep_time,
                          debug_mode |-> debug_mode])

(***************************************************************************)
(* Configurations the constructor is applied to.                           *)
(***************************************************************************)
\* "u = x" and "t=y" on two lines
GoodBlock == <<"u", " ", "=", " ", "x", "\n", "t", "=", "y">>
\* "u=x", a blank line, and a line "t" that has no '='
BadBlock == <<"u", "=", "x", "\n", "\n", "t">>

\* a section holding the options that are given (a choice is <<>> or <<value>>)
Section(choice) ==
    [k \in {n \in DOMAIN choice : choice[n] # <<>>} |-> choice[k][1]]

Maybe(S) == {<<>>} \cup {<<x>> : x \in S}

SectionChoices ==
    [acmesh_binary_path : Maybe({PyStr("/opt/acme.sh")}),
     acmesh_home_path : Maybe({PyStr("/srv/acme")}),
     dns_plugin : Maybe({PyStr(""), PyStr("dns_pdns")}),
     dns_plugin_config : Maybe({PyText(<<>>), PyText(GoodBlock)}),
     dns_sleep_time : Maybe({PyStr("60")}),
     debug_mode : Maybe({PyStr("1")})]

Configs ==
    {[s \in {} |-> <<>>]} \cup {[s \in {"acmesh"} |-> Section(c)] : c \in SectionChoices}

BinaryPaths == {DefaultBinaryPath, "/opt/acme.sh"}
HomePaths == {DefaultHomePath, "/srv/acme"}

\* the configurations of the backends that sign() is run on: the default
\* paths, a plugin, either block, dns_sleep_time given or defaulted
SignChoices ==
    [acmesh_binary_path : {<<>>},
     acmesh_home_path : {<<>>},
     dns_plugin : {<<PyStr("dns_pdns")>>},
     dns_plugin_config : {<<PyText(GoodBlock)>>, <<PyText(BadBlock)>>},
     dns_sleep_time : Maybe({PyStr("60")}),
     debug_mode : {<<>>}]


(***************************************************************************)
(* The state.                                                              *)
(***************************************************************************)
VARIABLES
    config,          \* the configuration handed to the constructor
    executables,     \* paths for which os.access(path, os.X_OK) holds
    existing,        \* paths for which os.path.exists(path) holds
    constructed,     \* what AcmeSHBackend(config) produced, <<>> before the call
    config_str,      \* the argument of _parse_dns_plugin_config
    parsed,          \* what _parse_dns_plugin_config produced, <<>> before the call
    backend,         \* self: the backend object sign() is called on
    pc,              \* per sign() call: the place it has reached
    csr,             \* per call: the csr argument
    subjectAltNames, \* per call: the subjectAltNames argument
    tmpdir,          \* per call: the directory TemporaryDirectory created
    proc,            \* per call: the child process, <<>> when there is none
    res,             \* per call: the CompletedProcess, <<>> when there is none
    result,          \* per call: how sign() ended, <<>> while it has not
    elapsed,         \* per call: seconds subprocess.run has waited
    launches,        \* per call: how many child processes it has started
    dirs,            \* the temporary directories that exist
    files,           \* per temporary directory: the content of csr.pem in it
    certdir,         \* whether <home>/certificates exists
    certs            \* per certificate path: <<>> or <<content>> of the file

ctorVars == <<config, executables, existing, constructed>>
parseVars == <<config_str, parsed>>
signVars == <<backend, pc, csr, subjectAltNames, tmpdir, proc, res, result,
              elapsed, launches, dirs, files, certdir, certs>>
vars == <<ctorVars, parseVars, signVars>>

Calls == 1 .. NCalls
\* names tempfile can give a directory (prefix "serles-acmesh" and a suffix)
TmpNames == 1 .. NCalls
SanNames == {"a.test", "b.test"}
SanLists == {<<"a.test">>, <<"b.test", "a.test">>}
\* csr arguments of call c: its own request, as bytes as the signature asks
\* or as text handed in by mistake
CsrArgs(c) == {PyBytes(<<"csr", c>>), PyStr(<<"csr", c>>)}
\* what the external client can exit with, and print
ExitCodes == {0, 2, 5}
Outputs == {[utf8 |-> TRUE, text |-> "DNS record not found"],
            [utf8 |-> FALSE, text |-> "\\xff"]}
\* os.environ of the serving process
Environ ==
    (<<"P", "A", "T", "H">> :> <<"/", "b", "i", "n">>) @@ (<<"H", "O", "M", "E">> :> <<"/">>)

NoFile == <<>>
\* the text of the certificate chain issued for a request
Chain(request) == [issued_for |-> request]

(***************************************************************************)
(* AcmeSHBackend.sign: the pieces                                          *)
(***************************************************************************)
\* Line 86: timeout=900
TIMEOUT == 900

\* Line 63
csr_file(dir) == <<dir, "csr.pem">>

\* (mutant) the file is named after the last name of the list
fullchain_fileLastName(self, sans) ==
    <<self.acmesh_home_path.v, "certificates", sans[Len(sans)]>>

\* Line 68; subjectAltNames[0] is the first element
fullchain_file(self, sans) == <<self.acmesh_home_path.v, "certificates", sans[1]>>

\* Lines 70-81
Cmd(self, csrfile, fullchain) ==
    <<self.acmesh_binary_path,
      PyStr("--sign-csr"),
      PyStr("--csr"), PyStr(csrfile),
      PyStr("--dns"), self.dns_plugin,
      PyStr("--fullchain-file"), PyStr(fullchain),
      PyStr("--home"), self.acmesh_home_path,
      PyStr("--dnssleep"), self.dns_sleep_time>>
    \o (IF Truthy(self.debug_mode) THEN <<PyStr("--debug")>> ELSE <<>>)

\* Line 65: a file opened "wb" takes bytes only
WriteAccepts(data) == data.t = "bytes"

\* Line 67: os.makedirs(path, exist_ok=True) on a path that exists or not;
\* TRUE when it raises FileExistsError
MakedirsRaises(exists, exist_ok) == exists /\ ~exist_ok

\* Line 86: subprocess.run turns every element of cmd into a file-system
\* string; an int (the default dns_sleep_time) is a TypeError
ArgsAccepted(cmd) == \A i \in 1 .. Len(cmd) : cmd[i].t \in {"str", "bytes"}

\* Line 86: env=env; the child gets exactly this mapping as its environment
ChildEnviron(env, environ) == env

\* Line 87: bytes.decode("utf-8")
Decode(bytes) ==
    IF bytes.utf8 THEN [raised |-> FALSE, text |-> bytes.text]
    ELSE [raised |-> TRUE, text |-> ""]

\* Lines 91-95: what the return code leads to
Interpret(returncode) ==
    IF returncode = 2 THEN "read"
    ELSE IF returncode # 0 THEN "error"
    ELSE "read"

\* (mutant) the directory is removed by hand before a return only
WithExitOnReturnOnly(ds, d, how) == IF how = "return" THEN ds \ {d} ELSE ds

\* Line 61: how the with statement leaves the directory set, whether the body
\* returned or raised
WithExit(ds, d, how) == ds \ {d}

\* (mutant) one fixed directory name for every call
FreshNamesFixed(ds) == {1}

\* Line 61: mkdtemp takes a name no directory has
FreshNames(ds) == TmpNames \ ds


(***************************************************************************)
(* AcmeSHBackend.sign: the steps of one call c                             *)
(***************************************************************************)
\* The with block of line 61 is left: the call ends, returning <<cert, err>>
\* or raising exc, TemporaryDirectory removes the directory, and the locals
\* of the call are gone.  subjectAltNames, launches and res stay, as the
\* record of what the call was asked, what it did and how its child ended.
End(c, how, exc, cert, err) ==
    /\ pc' = [pc EXCEPT ![c] = "done"]
    /\ result' = [result EXCEPT ![c] = <<[how |-> how, exc |-> exc, cert |-> cert, err |-> err]>>]
    /\ dirs' = WithExit(dirs, tmpdir[c], how)
    /\ files' = [files EXCEPT ![tmpdir[c]] = IF tmpdir[c] \in dirs' THEN @ ELSE NoFile]
    /\ csr' = [csr EXCEPT ![c] = PyNone]
    /\ tmpdir' = [tmpdir EXCEPT ![c] = IF tmpdir[c] \in dirs' THEN @ ELSE 0]
    /\ proc' = [proc EXCEPT ![c] = <<>>]
    /\ elapsed' = [elapsed EXCEPT ![c] = 0]

Raise(c, exc) == End(c, "raise", exc, PyNone, PyNone)
Return(c, cert, err) == End(c, "return", <<>>, cert, err)

\* Lines 60-61: sign(csr, subjectDN, subjectAltNames, email) is called and
\* the temporary directory is made
SignEnter(c) ==
    /\ pc[c] = "idle"
    /\ \E data \in CsrArgs(c), sans \in SanLists, d \in FreshNames(dirs) :
          /\ csr' = [csr EXCEPT ![c] = data]
          /\ subjectAltNames' = [subjectAltNames EXCEPT ![c] = sans]
          /\ tmpdir' = [tmpdir EXCEPT ![c] = d]
          /\ dirs' = dirs \cup {d}
    /\ pc' = [pc EXCEPT ![c] = "write_csr"]
    /\ UNCHANGED <<backend, proc, res, result, elapsed, launches, files, certdir, certs>>
    /\ UNCHANGED <<ctorVars, parseVars>>

\* Lines 63-65
WriteCsr(c) ==
    /\ pc[c] = "write_csr"
    /\ IF WriteAccepts(csr[c])
       THEN /\ files' = [files EXCEPT ![csr_file(tmpdir[c])[1]] = <<csr[c].v>>]
            /\ pc' = [pc EXCEPT ![c] = "makedirs"]
            /\ UNCHANGED <<result, dirs, csr, tmpdir, proc, elapsed>>
       ELSE Raise(c, <<"TypeError", "a bytes-like object is required">>)
    /\ UNCHANGED <<backend, subjectAltNames, res, launches, certdir, certs>>
    /\ UNCHANGED <<ctorVars, parseVars>>

\* Line 67
MakeDirs(c) ==
    /\ pc[c] = "makedirs"
    /\ IF MakedirsRaises(certdir, TRUE)
       THEN /\ Raise(c, <<"FileExistsError">>)
            /\ UNCHANGED certdir
       ELSE /\ certdir' = TRUE
            /\ pc' = [pc EXCEPT ![c] = "run"]
            /\ UNCHANGED <<result, dirs, files, csr, tmpdir, proc, elapsed>>
    /\ UNCHANGED <<backend, subjectAltNames, res, launches, certs>>
    /\ UNCHANGED <<ctorVars, parseVars>>

\* Lines 68-86, up to the start of the child process
Launch(c) ==
    /\ pc[c] = "run"
    /\ LET fullchain == fullchain_file(backend, subjectAltNames[c])
           cmd == Cmd(backend, csr_file(tmpdir[c]), fullchain)
           env == _parse_dns_plugin_config(backend.dns_plugin_config.v)
       IN  IF env.raised
           THEN /\ Raise(c, <<"RuntimeError", "Malformed dns_plugin_config line", env.line>>)
                /\ UNCHANGED launches
           ELSE IF ~ArgsAccepted(cmd)
           THEN /\ Raise(c, <<"TypeError", "expected str, bytes or os.PathLike object">>)
                /\ UNCHANGED launches
           ELSE /\ proc' = [proc EXCEPT ![c] =
                               <<[cmd |-> cmd, env |-> ChildEnviron(env.config_dict, Environ)]>>]
                /\ launches' = [launches EXCEPT ![c] = @ + 1]
                /\ elapsed' = [elapsed EXCEPT ![c] = 0]
                /\ pc' = [pc EXCEPT ![c] = "wait"]
                /\ UNCHANGED <<result, dirs, files, csr, tmpdir>>
    /\ UNCHANGED <<backend, subjectAltNames, res, certdir, certs>>
    /\ UNCHANGED <<ctorVars, parseVars>>

\* Line 86: time passes while subprocess.run waits for the child
Tick(c) ==
    /\ pc[c] = "wait"
    /\ elapsed[c] < TIMEOUT
    /\ elapsed' = [elapsed EXCEPT ![c] =
                      IF @ + TickStep > TIMEOUT THEN TIMEOUT ELSE @ + TickStep]
    /\ UNCHANGED <<backend, pc, csr, subjectAltNames, tmpdir, proc, res, result, launches,
                   dirs, files, certdir, certs>>
    /\ UNCHANGED <<ctorVars, parseVars>>

\* Line 86: the external client ends and subprocess.run returns.  The client
\* is handed its files on the command line: exiting 0 it has read the CSR at
\* --csr and written the chain issued for it to --fullchain-file; with any
\* other code it has written no chain.
ChildExit(c) ==
    /\ pc[c] = "wait"
    /\ proc[c] # <<>>
    /\ \E code \in ExitCodes, out \in Outputs :
          LET cmd == proc[c][1].cmd
              csrdir == cmd[4].v[1]
              fullchain == cmd[8].v
          IN  /\ code = 0 => files[csrdir] # NoFile
              /\ certs' = IF code = 0
                          THEN [certs EXCEPT ![fullchain] = <<Chain(files[csrdir][1])>>]
                          ELSE certs
              /\ res' = [res EXCEPT ![c] = <<[returncode |-> code, stdout |-> out]>>]
    /\ proc' = [proc EXCEPT ![c] = <<>>]
    /\ elapsed' = [elapsed EXCEPT ![c] = 0]
    /\ pc' = [pc EXCEPT ![c] = "returned"]
    /\ UNCHANGED <<backend, csr, subjectAltNames, tmpdir, result, launches,
                   dirs, files, certdir>>
    /\ UNCHANGED <<ctorVars, parseVars>>

\* (mutant) on a timeout the client is started once more
TimeoutRetry(c) ==
    /\ pc[c] = "wait"
    /\ elapsed[c] >= TIMEOUT
    /\ launches[c] < 2
    /\ launches' = [launches EXCEPT ![c] = @ + 1]
    /\ elapsed' = [elapsed EXCEPT ![c] = 0]
    /\ UNCHANGED <<backend, pc, csr, subjectAltNames, tmpdir, proc, res, result,
                   dirs, files, certdir, certs>>
    /\ UNCHANGED <<ctorVars, parseVars>>

\* Line 86: the budget is used up; subprocess.run kills the child and raises
TimeoutExpired(c) ==
    /\ pc[c] = "wait"
    /\ elapsed[c] >= TIMEOUT
    /\ Raise(c, <<"TimeoutExpired">>)
    /\ UNCHANGED <<backend, subjectAltNames, res, launches, certdir, certs>>
    /\ UNCHANGED <<ctorVars, parseVars>>

\* Lines 87-98
Finish(c) ==
    /\ pc[c] = "returned"
    /\ LET r == res[c][1]
           output == Decode(r.stdout)
           fullchain == fullchain_file(backend, subjectAltNames[c])
       IN  IF output.raised
           THEN Raise(c, <<"UnicodeDecodeError">>)
           ELSE IF Interpret(r.returncode) = "error"
           THEN Return(c, PyNone,
                       PyStr([text |-> "acme.sh exited with error and output",
                              returncode |-> r.returncode, output |-> output.text]))
           ELSE IF certs[fullchain] = NoFile
           THEN Raise(c, <<"FileNotFoundError">>)
           ELSE Return(c, PyStr(certs[fullchain][1]), PyNone)
    /\ UNCHANGED <<backend, subjectAltNames, res, launches, certdir, certs>>
    /\ UNCHANGED <<ctorVars, parseVars>>

(***************************************************************************)
(* The constructor and the translator as steps.                            *)
(***************************************************************************)
Construct ==
    /\ constructed = <<>>
    /\ constructed' = <<__init__(config, executables, existing)>>
    /\ UNCHANGED <<config, executables, existing, parseVars, signVars>>

Parse ==
    /\ parsed = <<>>
    /\ parsed' = <<_parse_dns_plugin_config(config_str)>>
    /\ UNCHANGED <<config_str, ctorVars, signVars>>

(***************************************************************************)
(* Specifications.                                                         *)
(***************************************************************************)
CertPaths == {<<DefaultHomePath, "certificates", s>> : s \in SanNames}

NoCalls ==
    /\ pc = [c \in Calls |-> "idle"]
    /\ csr = [c \in Calls |-> PyNone]
    /\ subjectAltNames = [c \in Calls |-> <<>>]
    /\ tmpdir = [c \in Calls |-> 0]
    /\ proc = [c \in Calls |-> <<>>]
    /\ res = [c \in Calls |-> <<>>]
    /\ result = [c \in Calls |-> <<>>]
    /\ elapsed = [c \in Calls |-> 0]
    /\ launches = [c \in Calls |-> 0]
    /\ dirs = {}
    /\ files = [d \in TmpNames |-> NoFile]

\* sign(): a backend has been constructed from one of the signing
\* configurations; the home directory exists (the constructor saw to that)
\* and holds no certificates directory yet
Init ==
    /\ config \in {[s \in {"acmesh"} |-> Section(ch)] : ch \in SignChoices}
    /\ executables = {DefaultBinaryPath}
    /\ existing = {DefaultHomePath}
    /\ constructed = <<__init__(config, executables, existing)>>
    /\ backend = constructed[1].self
    /\ config_str = <<>>
    /\ parsed = <<>>
    /\ NoCalls
    /\ certdir = FALSE
    /\ certs = [p \in CertPaths |-> NoFile]

Next ==
    \E c \in Calls :
        \/ SignEnter(c)
        \/ WriteCsr(c)
        \/ MakeDirs(c)
        \/ Launch(c)
        \/ Tick(c)
        \/ ChildExit(c)
        \/ TimeoutExpired(c)
        \/ Finish(c)

Spec == Init /\ [][Next]_vars

\* The same steps, for the calls that are made under fairness.
LiveCalls == 1 .. NLive

NextLive ==
    \E c \in LiveCalls :
        \/ SignEnter(c)
        \/ WriteCsr(c)
        \/ MakeDirs(c)
        \/ Launch(c)
        \/ Tick(c)
        \/ ChildExit(c)
        \/ TimeoutExpired(c)
        \/ Finish(c)

\* The clock runs and subprocess.run acts on its timeout.  Nothing makes
\* the external client end.
Fairness ==
    \A c \in LiveCalls : WF_vars(Tick(c)) /\ WF_vars(TimeoutExpired(c))

LiveSpec == Init /\ [][NextLive]_vars /\ Fairness

\* the constructor, on every configuration and file system of the bounds
Alphabet == {"a", "b", "=", " ", "\n"}
Blocks == UNION {[1 .. n -> Alphabet] : n \in 0 .. MaxLen}

InitCtor ==
    /\ config \in Configs
    /\ executables \in SUBSET BinaryPaths
    /\ existing \in SUBSET HomePaths
    /\ constructed = <<>>
    /\ backend = PyNone
    /\ config_str = <<>>
    /\ parsed = <<>>
    /\ NoCalls
    /\ certdir = FALSE
    /\ certs = [p \in CertPaths |-> NoFile]

NextCtor == Construct

CtorSpec == InitCtor /\ [][NextCtor]_vars

\* the translator, on every block of the bounds
InitParse ==
    /\ config = [s \in {} |-> <<>>]
    /\ executables = {}
    /\ existing = {}
    /\ constructed = <<>>
    /\ backend = PyNone
    /\ config_str \in Blocks
    /\ parsed = <<>>
    /\ NoCalls
    /\ certdir = FALSE
    /\ certs = [p \in CertPaths |-> NoFile]

NextParse == Parse

ParseSpec == InitParse /\ [][NextParse]_vars


(***************************************************************************)
(* Notions the properties are stated in.                                   *)
(***************************************************************************)
\* the lines of a credential block, and what a line reads as
BlockLines(block) == LET ls == splitlines(block) IN {ls[i] : i \in 1 .. Len(ls)}
IsBlank(line) == strip(line) = <<>>
HasSeparator(line) == \E i \in 1 .. Len(line) : line[i] = "="
KeyOf(line) == strip(partition(line, "=")[1])
ValueOf(line) == strip(partition(line, "=")[3])
MalformedLines(block) == {l \in BlockLines(block) : ~IsBlank(l) /\ ~HasSeparator(l)}
\* a "key = value" line: one separator, and a key before it
IsEntry(line) ==
    /\ Cardinality({i \in 1 .. Len(line) : line[i] = "="}) = 1
    /\ KeyOf(line) # <<>>
WellFormedBlock(block) == \A l \in BlockLines(block) : IsBlank(l) \/ IsEntry(l)
\* the value of the last line of the block that carries key k
RECURSIVE LastValue(_, _)
LastValue(lines, k) ==
    LET l == lines[Len(lines)]
    IN  IF ~IsBlank(l) /\ KeyOf(l) = k THEN ValueOf(l)
        ELSE LastValue(SubSeq(lines, 1, Len(lines) - 1), k)

Started(c) == pc[c] # "idle"
Ended(c) == pc[c] = "done"
Returned(c) == Ended(c) /\ result[c][1].how = "return"
RaisedIn(c, name) == Ended(c) /\ result[c][1].how = "raise" /\ result[c][1].exc[1] = name
ReturnedCert(c) == Returned(c) /\ result[c][1].cert.t = "str"
\* <home>/certificates/<subjectAltNames[0]>.pem of call c
OutputPath(c) == <<backend.acmesh_home_path.v, "certificates", subjectAltNames[c][1]>>
\* the step of call c that ends it after its child has ended
ReturnsAfterChild(c) == pc[c] = "returned" /\ pc'[c] = "done"

(***************************************************************************)
(* C1.  On a backend whose dns_plugin_config has a non-blank line without  *)
(* '=', no sign() call starts the child process, and a call that has ended *)
(* has raised: the error names that line, unless the call failed before    *)
(* the translation, on a csr that is not bytes.                            *)
(***************************************************************************)
C1_MalformedBlockAborts ==
    \A c \in Calls :
        MalformedLines(backend.dns_plugin_config.v) # {} =>
            /\ launches[c] = 0
            /\ proc[c] = <<>>
            /\ Ended(c) =>
                   /\ result[c][1].how = "raise"
                   /\ \/ result[c][1].exc[1] = "TypeError"
                      \/ /\ result[c][1].exc[1] = "RuntimeError"
                         /\ result[c][1].exc[3] \in
                                {strip(l) : l \in MalformedLines(backend.dns_plugin_config.v)}

(***************************************************************************)
(* C2.  For a block of well-formed lines and blank lines only, the         *)
(* translator returns a map whose keys are exactly the trimmed keys of the *)
(* non-blank lines, each with the trimmed value of the last line carrying  *)
(* that key.                                                               *)
(***************************************************************************)
C2_WellFormedBlockMap ==
    (parsed # <<>> /\ WellFormedBlock(config_str)) =>
        LET lines == splitlines(config_str)
            entries == {l \in BlockLines(config_str) : ~IsBlank(l)}
        IN  /\ ~parsed[1].raised
            /\ DOMAIN parsed[1].config_dict = {KeyOf(l) : l \in entries}
            /\ \A k \in DOMAIN parsed[1].config_dict :
                   k \in {KeyOf(l) : l \in entries} =>
                       parsed[1].config_dict[k] = LastValue(lines, k)

(***************************************************************************)
(* C3.  The environment of a started child holds every inherited variable  *)
(* that is no credential key, with its inherited value, and every          *)
(* credential key with its translated value.                               *)
(***************************************************************************)
C3_ChildEnvironmentMerged ==
    \A c \in Calls :
        proc[c] # <<>> =>
            LET env == proc[c][1].env
                cred == _parse_dns_plugin_config(backend.dns_plugin_config.v).config_dict
            IN  /\ \A k \in DOMAIN Environ \ DOMAIN cred :
                       k \in DOMAIN env /\ env[k] = Environ[k]
                /\ \A k \in DOMAIN cred : k \in DOMAIN env /\ env[k] = cred[k]

(***************************************************************************)
(* C4.  A call whose child exited 0 or 2 returns the text of the file at   *)
(* its output path and no error.                                           *)
(***************************************************************************)
C4_ExitZeroOrTwoReturnsFile ==
    [][\A c \in Calls :
          (ReturnsAfterChild(c) /\ res[c][1].returncode \in {0, 2}) =>
              /\ result'[c][1].how = "return"
              /\ result'[c][1].err = PyNone
              /\ certs[OutputPath(c)] # NoFile
              /\ result'[c][1].cert = PyStr(certs[OutputPath(c)][1])]_vars

(***************************************************************************)
(* C5.  A call whose child exited with a code other than 0 and 2 returns   *)
(* no certificate and a message holding the code and the whole output,     *)
(* whether or not a file is at the output path.                            *)
(***************************************************************************)
C5_FailingExitReturnsError ==
    [][\A c \in Calls :
          (ReturnsAfterChild(c) /\ res[c][1].returncode \notin {0, 2}) =>
              /\ result'[c][1].how = "return"
              /\ result'[c][1].cert = PyNone
              /\ result'[c][1].err.t = "str"
              /\ result'[c][1].err.v.returncode = res[c][1].returncode
              /\ result'[c][1].err.v.output = res[c][1].stdout.text]_vars

(***************************************************************************)
(* What the code does keep of C4 and C5: when the captured output decodes  *)
(* as UTF-8, exit codes 0 and 2 lead to the file being read (its text is   *)
(* returned when the file is there, FileNotFoundError raised when not),    *)
(* and any other code to the error pair, the file left unread.             *)
(***************************************************************************)
ExitCodeHandlingWhenDecodable ==
    [][\A c \in Calls :
          (ReturnsAfterChild(c) /\ res[c][1].stdout.utf8) =>
              IF res[c][1].returncode \in {0, 2}
              THEN IF certs[OutputPath(c)] # NoFile
                   THEN /\ result'[c][1].how = "return"
                        /\ result'[c][1].err = PyNone
                        /\ result'[c][1].cert = PyStr(certs[OutputPath(c)][1])
                   ELSE /\ result'[c][1].how = "raise"
                        /\ result'[c][1].exc = <<"FileNotFoundError">>
              ELSE /\ result'[c][1].how = "return"
                   /\ result'[c][1].cert = PyNone
                   /\ result'[c][1].err.v.returncode = res[c][1].returncode
                   /\ result'[c][1].err.v.output = res[c][1].stdout.text]_vars

(***************************************************************************)
(* C6.  The only staging directories that exist are those of calls that    *)
(* are under way: once a call has ended, however it ended, its directory   *)
(* and the CSR file in it are gone.                                        *)
(***************************************************************************)
C6_StagingDirsRemoved ==
    /\ dirs = {tmpdir[c] : c \in {x \in Calls : Started(x) /\ ~Ended(x)}}
    /\ \A c \in Calls : Ended(c) => tmpdir[c] = 0
    /\ \A d \in TmpNames : d \notin dirs => files[d] = NoFile

\* two calls have ended, one by a timeout and one by an error return, and no
\* directory is left
C6_Witness ==
    \E c, d \in Calls :
        /\ RaisedIn(c, "TimeoutExpired")
        /\ Returned(d) /\ result[d][1].cert = PyNone
        /\ dirs = {}

(***************************************************************************)
(* C7.  A call waiting for a child that does not end is ended by the       *)
(* timeout: it raises TimeoutExpired, not before 900 seconds have passed,  *)
(* returns no certificate, and no call starts a second child.              *)
(***************************************************************************)
C7_TimeoutEndsCall ==
    /\ \A c \in Calls :
          (pc[c] = "wait") ~> (pc[c] = "returned" \/ RaisedIn(c, "TimeoutExpired"))
    /\ [](\A c \in Calls : launches[c] <= 1)
    /\ [](\A c \in Calls : RaisedIn(c, "TimeoutExpired") => result[c][1].cert = PyNone)
    /\ [][\A c \in Calls :
             (pc[c] = "wait" /\ pc'[c] = "done") =>
                 /\ elapsed[c] = TIMEOUT
                 /\ result'[c][1].exc = <<"TimeoutExpired">>]_vars

\* a call has been ended by the timeout, its child never having ended
C7_Witness ==
    \E c \in Calls : RaisedIn(c, "TimeoutExpired") /\ res[c] = <<>> /\ launches[c] = 1

(***************************************************************************)
(* C8.  With the acmesh section present, construction succeeds exactly     *)
(* when the binary path is executable, the home path exists, dns_plugin is *)
(* non-empty and dns_plugin_config is non-empty; otherwise it raises the   *)
(* error of the first failing check and yields no backend.                 *)
(***************************************************************************)
C8_ConstructionIff ==
    (constructed # <<>> /\ "acmesh" \in DOMAIN config) =>
        LET section == config["acmesh"]
            r == constructed[1]
            binary == IF "acmesh_binary_path" \in DOMAIN section
                      THEN section["acmesh_binary_path"].v ELSE DefaultBinaryPath
            home == IF "acmesh_home_path" \in DOMAIN section
                    THEN section["acmesh_home_path"].v ELSE DefaultHomePath
            binaryOk == binary \in executables
            homeOk == home \in existing
            pluginOk == "dns_plugin" \in DOMAIN section /\ section["dns_plugin"].v # ""
            blockOk == "dns_plugin_config" \in DOMAIN section
                           /\ section["dns_plugin_config"].v # <<>>
        IN  /\ ~r.raised <=> (binaryOk /\ homeOk /\ pluginOk /\ blockOk)
            /\ r.raised => r.self = PyNone
            /\ ~r.raised => r.self # PyNone
            /\ r.raised =>
                   r.exc[1] =
                       IF ~binaryOk THEN "ACME.sh not executable"
                       ELSE IF ~homeOk THEN "ACME.sh home path does not exist."
                       ELSE IF ~pluginOk
                       THEN "Please specify a dns_plugin in acmesh section of config.ini"
                       ELSE "Please specify a dns_plugin_config in acmesh section of config.ini"

\* construction has failed on a missing home path, with the binary in place
\* and dns_plugin missing as well
C8_Witness ==
    /\ constructed # <<>>
    /\ "acmesh" \in DOMAIN config
    /\ constructed[1].raised
    /\ constructed[1].exc[1] = "ACME.sh home path does not exist."
    /\ "dns_plugin" \notin DOMAIN config["acmesh"]

(***************************************************************************)
(* C9.  Calls with the same subjectAltNames[0] hand their children the     *)
(* same output path, and a call that returns a certificate returns what    *)
(* that path holds when it reads it, whichever call's child wrote it; so a *)
(* call can return the chain issued for another call's request.            *)
(***************************************************************************)
C9_SharedOutputPath ==
    /\ [](\A c, d \in Calls :
             (proc[c] # <<>> /\ proc[d] # <<>>
                  /\ subjectAltNames[c][1] = subjectAltNames[d][1]) =>
                 proc[c][1].cmd[8] = proc[d][1].cmd[8])
    /\ [](\A c \in Calls : proc[c] # <<>> => proc[c][1].cmd[8] = PyStr(OutputPath(c)))
    /\ [][\A c \in Calls :
             (ReturnsAfterChild(c) /\ result'[c][1].cert.t = "str") =>
                 /\ certs[OutputPath(c)] # NoFile
                 /\ result'[c][1].cert.v = certs[OutputPath(c)][1]]_vars

\* call c's child exited 0, having written the chain for c's request, and c
\* has returned the chain issued for the request of another call d
C9_Witness ==
    \E c, d \in Calls :
        /\ c # d
        /\ ReturnedCert(c)
        /\ res[c][1].returncode = 0
        /\ result[c][1].cert.v = Chain(<<"csr", d>>)
        /\ subjectAltNames[d][1] = subjectAltNames[c][1]

(***************************************************************************)
(* C10.  While the calls made have pairwise distinct subjectAltNames[0]:   *)
(* each call under way has a staging directory of its own, which holds its *)
(* own CSR from the write on; no call fails on creating the certificates   *)
(* directory; and a call that returns a certificate returns the chain      *)
(* issued for its own request.                                             *)
(***************************************************************************)
C10_DistinctIdentitiesIsolated ==
    (\A c, d \in Calls :
         (c # d /\ Started(c) /\ Started(d)) => subjectAltNames[c][1] # subjectAltNames[d][1])
    =>
    /\ \A c, d \in Calls :
           (c # d /\ Started(c) /\ ~Ended(c) /\ Started(d) /\ ~Ended(d)) =>
               tmpdir[c] # tmpdir[d]
    /\ \A c \in Calls :
           pc[c] \in {"makedirs", "run", "wait", "returned"} =>
               tmpdir[c] \in dirs /\ files[tmpdir[c]] = <<csr[c].v>>
    /\ \A c \in Calls : ~RaisedIn(c, "FileExistsError")
    /\ \A c \in Calls : ReturnedCert(c) => result[c][1].cert.v = Chain(<<"csr", c>>)

\* two calls for different identities have both returned a certificate, the
\* second to start having found the certificates directory already made
C10_Witness ==
    \E c, d \in Calls :
        /\ c # d
        /\ ReturnedCert(c) /\ result[c][1].cert.v = Chain(<<"csr", c>>)
        /\ ReturnedCert(d) /\ result[d][1].cert.v = Chain(<<"csr", d>>)
        /\ subjectAltNames[c][1] # subjectAltNames[d][1]

=============================================================================
